---- MODULE Spec2Model ----
(***************************************************************************)
(* RunHeartbeatMonitor (services/ui_backend_service/api/heartbeat_monitor) *)
(* as a state machine.  One asyncio event loop runs the check_heartbeats   *)
(* task and one heartbeat_handler coroutine per 'run-heartbeat' event; a   *)
(* coroutine runs without interruption between two awaits, so every action *)
(* below is the code between two suspension points.                        *)
(***************************************************************************)
EXTENDS Integers, Sequences, FiniteSets, TLC

VARIABLES
    clock,        \* wall clock, seconds (datetime.utcnow().timestamp())
    watched,      \* self.watched: dict in insertion order, <<[k, ts], ...>>
    pending,      \* heartbeat_handler coroutines suspended in get_run
    sweepPc,      \* check_heartbeats: "sleep" | "fetch" | "crashed"
    time_now,     \* check_heartbeats local time_now
    snapshot,     \* list(self.watched.items()) of the current pass
    idx,          \* position of the for loop in snapshot (0: not iterating)
    wakeAt,       \* clock value at which asyncio.sleep returns
    observe,      \* which history variables this behaviour records (fixed by Init)
    episode,      \* history: per run, how its entry was last created/destroyed
    completeLast, \* history: per run, the latest update/complete event was a complete
    overwritten,  \* history: per run, <<replaced ts, fetched ts>> of the latest re-insert
    avoided,      \* history: runs whose replaced ts was expired at pass start, the fetched not
    fresh,        \* history: runs inserted, not expired, while the pass was in a fetch
    last,         \* history: the step taken last
    emitted,      \* history: the 'notify' event published by the step taken last
    inserted,     \* history: per run, how many times an update handler inserted it
    notified      \* history: per run, how many 'notify' events were published for it

vars == <<clock, watched, pending, sweepPc, time_now, snapshot, idx, wakeAt,
          observe, episode, completeLast, overwritten, avoided, fresh, last,
          emitted, inserted, notified>>

----------------------------------------------------------------------------
(* Bounds and program constants *)

HEARTBEAT_INTERVAL == 10

MaxTime == 31

MaxInFlight == 2

\* the history counters stop counting here
MaxCount == 2

\* the clock value at construction; the oldest heartbeat in the run table is
\* exactly HEARTBEAT_INTERVAL * 2 old at that time
StartTime == HEARTBEAT_INTERVAL * 2

\* the instants at which the model lets the clock be read: the start, one
\* second later (the first instant a heartbeat of 0 is expired), one sleep
\* after the start, and the end
Instants == {StartTime, StartTime + 1, StartTime + HEARTBEAT_INTERVAL, MaxTime}

NextInstant(t) == CHOOSE u \in Instants : u > t /\ \A v \in Instants : v > t => u <= v

RunIds == {1, 2}

HeartbeatValues == {0, 15}

Actions == {"update", "complete", "other"}

\* "events": last records the handler steps; "sweep": last records the sweep
\* steps, and episode; "rewatch": overwritten and avoided; "race": fresh and
\* completeLast.  The program's own variables do not depend on it.
Observers == {"events", "sweep", "rewatch", "race", "count"}

----------------------------------------------------------------------------
(* Records of the run table: a dict, or None *)

\* a last_heartbeat_ts that is None (or not there)
Null == -1

NoneRun ==
    [isNone |-> TRUE, hasKey |-> FALSE, run_number |-> 0,
     hasHb |-> FALSE, hbNull |-> FALSE, last_heartbeat_ts |-> Null]

RunDict(hasKey, run_id, hasHb, hbNull, ts) ==
    [isNone |-> FALSE, hasKey |-> hasKey,
     run_number |-> IF hasKey THEN run_id ELSE 0,
     hasHb |-> hasHb, hbNull |-> hasHb /\ hbNull,
     last_heartbeat_ts |-> IF hasHb /\ ~hbNull THEN ts ELSE Null]

\* the rows find_records may return for "run_number = run_id": with a
\* heartbeat, with a null heartbeat, without the heartbeat field, without the key
Bodies(run_id) ==
    {RunDict(TRUE, run_id, TRUE, FALSE, ts) : ts \in HeartbeatValues}
    \cup {RunDict(TRUE, run_id, TRUE, TRUE, 0),
          RunDict(TRUE, run_id, FALSE, FALSE, 0),
          RunDict(FALSE, run_id, TRUE, FALSE, 0)}

\* DBResponse of find_records
DBResponses(run_id) ==
    {[response_code |-> 200, body |-> b] : b \in Bodies(run_id)}
    \cup {[response_code |-> c, body |-> NoneRun] : c \in {404, 500}}

get_run(result) ==
    IF result.response_code = 200 THEN result.body ELSE NoneRun

----------------------------------------------------------------------------
(* self.watched: a dict, kept as the sequence of its items *)

Keys(w) == {w[i].k : i \in 1..Len(w)}

Get(w, k) == (CHOOSE i \in 1..Len(w) : w[i].k = k)

TsOf(w, k) == w[Get(w, k)].ts

\* a put that keeps the timestamp of a key already present (setdefault)
PutIfAbsent(w, k, ts) ==
    IF k \in {w[i].k : i \in 1..Len(w)} THEN w ELSE Append(w, [k |-> k, ts |-> ts])

\* self.watched[k] = ts
put(w, k, ts) ==
    IF k \in Keys(w)
    THEN [w EXCEPT ![Get(w, k)] = [k |-> k, ts |-> ts]]
    ELSE Append(w, [k |-> k, ts |-> ts])

\* self.watched.pop(run_id, None)
\* a lookup in place of the pop: the entry stays
RemoveKeeps(w, run_id) == w

remove_run_from_watch(w, run_id) ==
    SelectSeq(w, LAMBDA e : e.k # run_id)

\* a pop without its default (or a del) raises KeyError for an absent key
RemoveRaisesIfAbsent(w, run_id) == run_id \notin Keys(w)

\* pop with a default raises for no key
RemoveRaises(w, run_id) == FALSE

\* "x in run" on None raises TypeError
AddRunRaises(run) == run.isNone

\* the conditions without "heartbeat_ts is not None"
AddRunInsertsNull(run) ==
    /\ ~run.isNone
    /\ run.hasHb /\ run.hasKey

AddRunInserts(run) ==
    /\ ~run.isNone
    /\ run.hasHb /\ run.hasKey
    /\ ~run.hbNull

\* an add_run_to_watch that only starts watching, never refreshes
AddRunOnlyNew(w, run) ==
    IF AddRunInserts(run) /\ run.run_number \notin Keys(w)
    THEN put(w, run.run_number, run.last_heartbeat_ts)
    ELSE w

add_run_to_watch(w, run) ==
    IF AddRunInserts(run)
    THEN put(w, run.run_number, run.last_heartbeat_ts)
    ELSE w

----------------------------------------------------------------------------
(* check_heartbeats *)

\* the comparison with >= for >
ExpiredAtThreshold(now, ts) == now - ts >= HEARTBEAT_INTERVAL * 2

Expired(now, ts) == now - ts > HEARTBEAT_INTERVAL * 2

\* a for loop without the `if`: every entry is broadcast
NextEntry(snap, i, now) == i

\* the first position >= i of snap whose entry is expired, Len(snap)+1 if none
RECURSIVE NextExpired(_, _, _)
NextExpired(snap, i, now) ==
    IF i > Len(snap) THEN i
    ELSE IF Expired(now, snap[i].ts) THEN i
    ELSE NextExpired(snap, i + 1, now)

\* a sweep that broadcasts and leaves the entry
SweepKeeps(w, run_number) == w

\* the removal that follows load_and_broadcast
SweepRemove(w, run_number) == remove_run_from_watch(w, run_number)

\* a sweep that removes the entry first and broadcasts afterwards
RemovedBeforeEmit(w, run_number) == remove_run_from_watch(w, run_number)

\* self.watched when load_and_broadcast calls emit: the removal (line 85)
\* comes after load_and_broadcast has returned (line 84)
WatchedAtEmit(w, run_number) == w

\* self.watched after an exception in load_and_broadcast: line 85 is not
\* reached
RaiseLeaves(w, run_number) == w

\* a payload built from the watched heartbeat instead of the fetched record
BroadcastCached(w, run_number, run) ==
    IF run_number \in Keys(w)
    THEN [isNone |-> FALSE, hasKey |-> TRUE, run_number |-> run_number,
          hasHb |-> TRUE, hbNull |-> FALSE, last_heartbeat_ts |-> TsOf(w, run_number)]
    ELSE run

\* the run that load_and_broadcast hands to emit: the one get_run returned
load_and_broadcast(w, run_number, run) == run

\* resource_list(table_name, run) of .notify
ResourceListMayRaise(run) == run.isNone \/ ~run.hasKey

----------------------------------------------------------------------------
(* History *)

Step(op, id, run) == [op |-> op, id |-> id, run |-> run]

Idle == Step("idle", 0, NoneRun)

NoPair == <<-1, -1>>

Record(observer, step) == IF observe = observer THEN step ELSE Idle

\* emit('notify', 'UPDATE', resources, run); present: the run was in
\* self.watched when emit was called
Notify(run_number, run, present) ==
    [kind |-> "UPDATE", id |-> run_number, run |-> run, present |-> present]

NoEmit == [kind |-> "none", id |-> 0, run |-> NoneRun, present |-> FALSE]

Count(observer, counter, run_number) ==
    IF observe = observer /\ counter[run_number] < MaxCount
    THEN [counter EXCEPT ![run_number] = @ + 1]
    ELSE counter

Init ==
    /\ clock = StartTime
    /\ watched = <<>>
    /\ pending = <<>>
    /\ sweepPc = "sleep"
    /\ time_now = StartTime
    /\ snapshot = <<>>
    /\ idx = 0
    /\ wakeAt = StartTime
    /\ observe \in Observers
    /\ episode = [r \in RunIds |-> "never"]
    /\ completeLast = [r \in RunIds |-> FALSE]
    /\ overwritten = [r \in RunIds |-> NoPair]
    /\ avoided = {}
    /\ fresh = {}
    /\ last = Idle
    /\ emitted = NoEmit
    /\ inserted = [r \in RunIds |-> 0]
    /\ notified = [r \in RunIds |-> 0]

----------------------------------------------------------------------------
(* The clock *)

Tick ==
    /\ clock < MaxTime
    /\ clock' = NextInstant(clock)
    /\ last' = Idle
    /\ emitted' = NoEmit
    /\ UNCHANGED <<watched, pending, sweepPc, time_now, snapshot, idx, wakeAt,
                   observe, episode, completeLast, overwritten, avoided, fresh,
                   inserted, notified>>

----------------------------------------------------------------------------
(* heartbeat_handler: the emitter starts one coroutine per event.  An       *)
(* "update" runs up to the await in get_run; "complete" and any other       *)
(* action run to their end without suspending.                              *)

\* `if action == "update"`: the handler fetches the run
IsUpdate(action) == action = "update"

\* an else branch in place of `if action == "complete"`
IsNotUpdate(action) == action # "update"

\* `if action == "complete"`: the handler removes the run
IsComplete(action) == action = "complete"

HeartbeatHandler(action, run_id) ==
    LET removes == IsComplete(action) /\ ~RemoveRaises(watched, run_id)
    IN
    /\ IsUpdate(action) => Len(pending) < MaxInFlight
    /\ pending' = IF IsUpdate(action)
                  THEN Append(pending, [id |-> run_id])
                  ELSE pending
    /\ watched' = IF removes
                  THEN remove_run_from_watch(watched, run_id)
                  ELSE watched
    /\ episode' = IF removes /\ observe = "sweep"
                  THEN [episode EXCEPT ![run_id] = "completed"]
                  ELSE episode
    /\ completeLast' = IF action \in {"update", "complete"} /\ observe = "race"
                       THEN [completeLast EXCEPT ![run_id] = (action = "complete")]
                       ELSE completeLast
    /\ overwritten' = IF removes
                      THEN [overwritten EXCEPT ![run_id] = NoPair]
                      ELSE overwritten
    /\ fresh' = IF removes THEN fresh \ {run_id} ELSE fresh
    /\ last' = Record("events",
                      Step(IF action = "complete" /\ ~removes
                           THEN "complete_error" ELSE action, run_id, NoneRun))
    /\ emitted' = NoEmit
    /\ UNCHANGED <<clock, sweepPc, time_now, snapshot, idx, wakeAt, observe, avoided,
                   inserted, notified>>

RemoveAt(s, i) == SubSeq(s, 1, i - 1) \o SubSeq(s, i + 1, Len(s))

\* find_records raises inside the i-th suspended handler: the coroutine ends
\* with the exception
AddRunFetchRaises(i) ==
    /\ i \in 1..Len(pending)
    /\ pending' = RemoveAt(pending, i)
    /\ last' = Record("events", Step("handler_raise", pending[i].id, NoneRun))
    /\ emitted' = NoEmit
    /\ UNCHANGED <<clock, watched, sweepPc, time_now, snapshot, idx, wakeAt,
                   observe, episode, completeLast, overwritten, avoided, fresh,
                   inserted, notified>>

\* find_records returns in the i-th suspended handler: the rest of
\* add_run_to_watch runs
AddRunResume(i, result) ==
    /\ i \in 1..Len(pending)
    /\ LET run_id == pending[i].id
           run == get_run(result)
           ins == AddRunInserts(run)
       IN /\ pending' = RemoveAt(pending, i)
          /\ watched' = add_run_to_watch(watched, run)
          /\ episode' = IF ins /\ observe = "sweep"
                        THEN [episode EXCEPT ![run_id] = "inserted"]
                        ELSE episode
          /\ overwritten' =
                IF ins /\ observe = "rewatch"
                THEN [overwritten EXCEPT ![run_id] =
                        IF run_id \in Keys(watched)
                        THEN <<TsOf(watched, run_id), run.last_heartbeat_ts>>
                        ELSE NoPair]
                ELSE overwritten
          /\ fresh' = IF /\ ins /\ sweepPc = "fetch" /\ observe = "race"
                         /\ time_now - run.last_heartbeat_ts <= 2 * HEARTBEAT_INTERVAL
                      THEN fresh \cup {run_id} ELSE fresh
          /\ last' = Record("events",
                            Step(IF AddRunRaises(run) THEN "handler_error"
                                 ELSE "handler_done", run_id, run))
          /\ inserted' = IF ins THEN Count("count", inserted, run_id) ELSE inserted
    /\ emitted' = NoEmit
    /\ UNCHANGED <<clock, sweepPc, time_now, snapshot, idx, wakeAt, observe,
                   completeLast, avoided, notified>>

----------------------------------------------------------------------------
(* check_heartbeats *)

\* the for loop from position j on: it suspends in load_and_broadcast at the
\* first expired entry, or ends and the task sleeps HEARTBEAT_INTERVAL
Iterate(snap, j, now) ==
    LET n == NextExpired(snap, j, now)
    IN IF n <= Len(snap)
       THEN /\ sweepPc' = "fetch"
            /\ snapshot' = snap
            /\ idx' = n
            /\ wakeAt' = 0
       ELSE /\ sweepPc' = "sleep"
            /\ snapshot' = <<>>
            /\ idx' = 0
            /\ wakeAt' = clock + HEARTBEAT_INTERVAL

\* top of the while loop: time_now, the snapshot, and the loop up to its
\* first await
CheckHeartbeatsPass ==
    /\ sweepPc = "sleep"
    /\ clock >= wakeAt
    /\ time_now' = clock
    /\ Iterate(watched, 1, clock)
    /\ avoided' = {r \in Keys(watched) :
                      /\ overwritten[r] # NoPair
                      /\ clock - overwritten[r][1] > 2 * HEARTBEAT_INTERVAL
                      /\ clock - overwritten[r][2] <= 2 * HEARTBEAT_INTERVAL}
    /\ fresh' = {}
    /\ last' = Record("sweep", Step("sweep_pass", 0, NoneRun))
    /\ emitted' = NoEmit
    /\ UNCHANGED <<clock, watched, pending, observe, episode, completeLast, overwritten,
                   inserted, notified>>

\* an exception in load_and_broadcast leaves check_heartbeats: nothing in the
\* while loop catches it, the task ends
SweepRaise(run_number, run) ==
    /\ sweepPc' = "crashed"
    /\ snapshot' = <<>>
    /\ idx' = 0
    /\ watched' = RaiseLeaves(watched, run_number)
    /\ last' = Record("sweep", Step("sweep_crash", run_number, run))
    /\ emitted' = NoEmit
    /\ UNCHANGED <<clock, pending, time_now, wakeAt,
                   observe, episode, completeLast, overwritten, avoided, fresh,
                   inserted, notified>>

\* get_run returns inside load_and_broadcast: resource_list, emit('notify'),
\* remove_run_from_watch, and the for loop up to the next await
LoadAndBroadcastResume(fetchRaises, result, resourceRaises, emitRaises) ==
    /\ sweepPc = "fetch"
    /\ LET run_number == snapshot[idx].k
           run == get_run(result)
       IN IF fetchRaises
          THEN SweepRaise(run_number, NoneRun)
          ELSE IF (resourceRaises /\ ResourceListMayRaise(run)) \/ emitRaises
          THEN SweepRaise(run_number, run)
          ELSE /\ watched' = SweepRemove(watched, run_number)
               /\ emitted' = IF observe = "sweep"
                             THEN Notify(run_number,
                                         load_and_broadcast(watched, run_number, run),
                                         run_number \in Keys(WatchedAtEmit(watched, run_number)))
                             ELSE NoEmit
               /\ notified' = Count("count", notified, run_number)
               /\ Iterate(snapshot, idx + 1, time_now)
               /\ episode' = IF observe = "sweep"
                             THEN [episode EXCEPT ![run_number] = "expired"]
                             ELSE episode
               /\ overwritten' = [overwritten EXCEPT ![run_number] = NoPair]
               /\ last' = Record("sweep", Step("sweep_notify", run_number, run))
               /\ UNCHANGED <<clock, pending, time_now, observe, completeLast,
                              avoided, fresh, inserted>>

----------------------------------------------------------------------------

Next ==
    \/ Tick
    \/ \E action \in Actions, run_id \in RunIds : HeartbeatHandler(action, run_id)
    \/ \E i \in 1..Len(pending) : AddRunFetchRaises(i)
    \/ \E i \in 1..Len(pending) :
          \E result \in DBResponses(pending[i].id) : AddRunResume(i, result)
    \/ CheckHeartbeatsPass
    \/ /\ sweepPc = "fetch"
       /\ \E fetchRaises \in BOOLEAN, resourceRaises \in BOOLEAN, emitRaises \in BOOLEAN :
             \E result \in DBResponses(snapshot[idx].k) :
                LoadAndBroadcastResume(fetchRaises, result, resourceRaises, emitRaises)

Spec == Init /\ [][Next]_vars

\* The program with a record store that answers every fetch (find_records
\* returns, with whatever response code) and an event loop that runs what
\* is ready: time passes, a finished sleep ends, an answered fetch resumes
\* the coroutine waiting for it.
NextAnswered ==
    \/ Tick
    \/ \E action \in Actions, run_id \in RunIds : HeartbeatHandler(action, run_id)
    \/ \E i \in 1..Len(pending) :
          \E result \in DBResponses(pending[i].id) : AddRunResume(i, result)
    \/ CheckHeartbeatsPass
    \/ /\ sweepPc = "fetch"
       /\ \E resourceRaises \in BOOLEAN, emitRaises \in BOOLEAN :
             \E result \in DBResponses(snapshot[idx].k) :
                LoadAndBroadcastResume(FALSE, result, resourceRaises, emitRaises)

SweepResumes ==
    /\ sweepPc = "fetch"
    /\ \E resourceRaises \in BOOLEAN, emitRaises \in BOOLEAN :
          \E result \in DBResponses(snapshot[idx].k) :
             LoadAndBroadcastResume(FALSE, result, resourceRaises, emitRaises)

FairSpec ==
    /\ Init
    /\ [][NextAnswered]_vars
    /\ WF_vars(Tick)
    /\ WF_vars(CheckHeartbeatsPass)
    /\ WF_vars(SweepResumes)

----------------------------------------------------------------------------
(* Claims *)

\* C1: a sweep step (the start of a pass, or the resume after a fetch)
\* passes over exactly the snapshot entries with
\* time_now - ts <= 2 * HEARTBEAT_INTERVAL, emitting nothing for them and
\* leaving them in the watch set with their timestamps, and stops to fetch
\* at the first entry with time_now - ts > 2 * HEARTBEAT_INTERVAL; when that
\* fetch and the publish return, the notification is for that entry's run
\* and the entry is removed.
C1_ExpiryThreshold ==
    [][ last'.op \in {"sweep_pass", "sweep_notify"} =>
        LET start == last'.op = "sweep_pass"
            snap == IF start THEN watched ELSE snapshot
            now == IF start THEN clock ELSE time_now
            from == IF start THEN 1 ELSE idx + 1
            upto == IF sweepPc' = "fetch" THEN idx' - 1 ELSE Len(snap)
        IN /\ time_now' = now
           /\ \A j \in from..upto : now - snap[j].ts <= 2 * HEARTBEAT_INTERVAL
           /\ sweepPc' = "fetch" =>
                 /\ snapshot' = snap
                 /\ now - snap[idx'].ts > 2 * HEARTBEAT_INTERVAL
           /\ ~start =>
                 /\ last'.id = snapshot[idx].k
                 /\ time_now - snapshot[idx].ts > 2 * HEARTBEAT_INTERVAL
                 /\ last'.id \notin Keys(watched')
           /\ \A r \in RunIds :
                 start \/ r # last'.id =>
                    /\ r \in Keys(watched') <=> r \in Keys(watched)
                    /\ r \in Keys(watched) => TsOf(watched', r) = TsOf(watched, r)
      ]_vars

\* a pass at 21 has notified for run 1 (heartbeat 0) and left run 2
C1_Witness ==
    /\ last.op = "sweep_notify" /\ last.id = 1
    /\ time_now = StartTime + 1
    /\ sweepPc = "sleep"
    /\ 1 \notin Keys(watched)
    /\ 2 \in Keys(watched)

\* C2: a notification is never emitted for a run whose latest creation or
\* destruction was a sweep expiry: after the sweep has notified for a run,
\* it notifies for it again only after an update has inserted it again.
C2_ExpiryOncePerEpisode ==
    [][ last'.op = "sweep_notify" => episode[last'.id] # "expired" ]_vars

\* a later pass has run to its end, run 1 expired before it and not watched
C2_Witness ==
    /\ last.op = "sweep_pass"
    /\ sweepPc = "sleep"
    /\ clock = MaxTime
    /\ episode[1] = "expired"
    /\ 1 \notin Keys(watched)

\* C3: when an update handler's fetch returns a record with the key and a
\* non-null heartbeat field, the watch set afterwards has exactly one entry
\* for that run and its timestamp is the record's heartbeat.
C3_UpdateStoresHeartbeat ==
    [][ ( /\ last'.op = "handler_done"
          /\ last'.run.hasKey /\ last'.run.hasHb /\ ~last'.run.hbNull ) =>
        /\ Cardinality({i \in 1..Len(watched') : watched'[i].k = last'.id}) = 1
        /\ \A i \in 1..Len(watched') :
              watched'[i].k = last'.id =>
                 watched'[i].ts = last'.run.last_heartbeat_ts
      ]_vars

\* an update has stored heartbeat 15 for run 1, run 2 watched with 0
C3_Witness ==
    /\ last.op = "handler_done" /\ last.id = 1
    /\ last.run.last_heartbeat_ts = 15
    /\ watched = <<[k |-> 2, ts |-> 0], [k |-> 1, ts |-> 15]>>

\* C4: a complete event never raises, leaves no entry for its run, leaves
\* every other run's entry as it was, and a second removal of the same run
\* changes nothing.
C4_CompleteRemoves ==
    [][ /\ last'.op # "complete_error"
        /\ last'.op = "complete" =>
              /\ last'.id \notin Keys(watched')
              /\ \A r \in RunIds \ {last'.id} :
                    /\ r \in Keys(watched') <=> r \in Keys(watched)
                    /\ r \in Keys(watched) => TsOf(watched', r) = TsOf(watched, r)
              /\ remove_run_from_watch(watched', last'.id) = watched'
      ]_vars

\* a complete for run 1 has been handled, run 2 is still watched
C4_Witness ==
    /\ last.op = "complete" /\ last.id = 1
    /\ 2 \in Keys(watched)
    /\ 1 \notin Keys(watched)

\* C5: an update of a watched run leaves the fetched heartbeat as its stored
\* timestamp, and a pass that starts after it, with the replaced timestamp
\* expired at the pass's time_now and the fetched one not, never fetches
\* (and so never notifies) for that run.
C5_ReupdateAvoidsExpiry ==
    /\ \A r \in RunIds :
          overwritten[r] # NoPair =>
             r \in Keys(watched) /\ TsOf(watched, r) = overwritten[r][2]
    /\ \A r \in avoided : ~(sweepPc = "fetch" /\ snapshot[idx].k = r)

\* the pass at 21 has ended: run 1, re-updated from 0 to 15, is still watched
C5_Witness ==
    /\ 1 \in avoided
    /\ sweepPc = "sleep"
    /\ time_now = StartTime + 1
    /\ 1 \in Keys(watched)
    /\ TsOf(watched, 1) = 15

\* C6: every run an update inserted while the pass was suspended in a fetch
\* (and no complete removed since) is in the watch set when the next pass
\* takes its snapshot.
C6_UpdateDuringFetchKept ==
    [][ (sweepPc = "sleep" /\ (sweepPc' = "fetch" \/ wakeAt' # wakeAt)) =>
        fresh \subseteq Keys(watched) ]_vars

\* C7: a sweep fetch that fails (raises, no record, or a record without the
\* key or the heartbeat field) emits no notification, leaves the watch set
\* as it is and leaves the sweep running.
C7_FailedFetchSkips ==
    [][ ( /\ last'.op \in {"sweep_notify", "sweep_crash"}
          /\ (last'.run.isNone \/ ~last'.run.hasKey \/ ~last'.run.hasHb) ) =>
        /\ last'.op # "sweep_notify"
        /\ watched' = watched
        /\ sweepPc' # "crashed"
      ]_vars

\* C8: the sweep loop never terminates.
C8_SweepNeverStops == sweepPc # "crashed"

\* C9: once every handler for a run has finished, a run whose latest event
\* was a complete is not watched.
C9_ArrivalOrder ==
    \A r \in RunIds :
       (completeLast[r] /\ \A i \in 1..Len(pending) : pending[i].id # r) =>
          r \notin Keys(watched)

\* C10: no notification is emitted for a run whose latest creation or
\* destruction was a complete event.
C10_CompleteIsSilent ==
    [][ last'.op = "sweep_notify" => episode[last'.id] # "completed" ]_vars

\* C11: an update whose fetched record lacks the heartbeat field or the key,
\* or has a null heartbeat, leaves the watch set as it was; and no entry of
\* the watch set ever has a null timestamp.
C11_NoHeartbeatNotWatched ==
    /\ [](\A i \in 1..Len(watched) : watched[i].ts # Null)
    /\ [][ ( /\ last'.op = "handler_done"
             /\ (~last'.run.hasKey \/ ~last'.run.hasHb \/ last'.run.hbNull) ) =>
           watched' = watched
         ]_vars

\* an update for watched run 1 has fetched a record with a null heartbeat
C11_Witness ==
    /\ last.op = "handler_done" /\ last.id = 1
    /\ last.run.hasKey /\ last.run.hasHb /\ last.run.hbNull
    /\ 1 \in Keys(watched)

\* C12: an update whose fetch finds no record is not an error: the handler
\* finishes normally, the watch set is as it was, and later events are still
\* accepted.
C12_NotFoundIsNotFatal ==
    [][ ( /\ last'.op \in {"handler_done", "handler_error"}
          /\ last'.run.isNone ) =>
           /\ last'.op = "handler_done"
           /\ watched' = watched
      ]_vars

\* C13: a watched run whose heartbeat is already older than
\* 2 * HEARTBEAT_INTERVAL, seen while the sweep sleeps with a pass still to
\* come, is eventually taken out of the watch set by the sweep's
\* notification, unless an update refreshes it or a complete removes it.
C13_ExpiredEventuallyNotified ==
    \A r \in RunIds :
        ( /\ r \in Keys(watched)
          /\ clock - TsOf(watched, r) > 2 * HEARTBEAT_INTERVAL
          /\ sweepPc = "sleep"
          /\ wakeAt <= MaxTime )
        ~> ( \/ r \notin Keys(watched)
             \/ clock - TsOf(watched, r) <= 2 * HEARTBEAT_INTERVAL )

\* C14: an event whose action is neither "update" nor "complete" is
\* ignored: the handler ends at once, with the watch set as it was, no fetch
\* started and the sweep (the only publisher) where it was.
C14_OtherActionIgnored ==
    [][ last'.op = "other" =>
           /\ watched' = watched
           /\ pending' = pending
           /\ UNCHANGED <<sweepPc, snapshot, idx, time_now, wakeAt>>
      ]_vars

\* an event with another action has been handled for watched run 1 while
\* an update was waiting for its fetch
C14_Witness ==
    /\ last.op = "other" /\ last.id = 1
    /\ 1 \in Keys(watched)
    /\ pending # <<>>

\* C15: the sweep publishes before it removes.  When the notification for a
\* run is published the run is still in the watch set, unless a complete
\* removed it while the sweep was fetching, and it is out of the watch set
\* when the step ends; and a sweep step changes the watch set only by
\* removing the one run it has just published.
C15_PublishBeforeRemove ==
    [][ observe = "sweep" =>
          /\ emitted'.kind = "UPDATE" =>
                /\ emitted'.present \/ episode[emitted'.id] = "completed"
                /\ emitted'.id \notin Keys(watched')
          /\ ( /\ last'.op \in {"sweep_pass", "sweep_notify", "sweep_crash"}
               /\ watched' # watched ) =>
                /\ emitted'.kind = "UPDATE"
                /\ Keys(watched) \ Keys(watched') = {emitted'.id}
      ]_vars

\* the sweep has published for run 1, which was watched at that moment and
\* is gone now, while run 2 is still watched
C15_Witness ==
    /\ emitted.kind = "UPDATE" /\ emitted.id = 1 /\ emitted.present
    /\ Keys(watched) = {2}

\* C16: the watch set changes only in the listed ways.  A run enters it, or
\* gets another timestamp, only in the step of an update handler resuming
\* from its fetch; a run leaves it only in a complete handler's step, or in
\* a sweep step that publishes for that run, and then the timestamp the
\* entry has when it is removed is more than 2 * HEARTBEAT_INTERVAL before
\* the pass's time_now.
C16_OnlyListedTransitions ==
    [][ observe = "sweep" =>
          \A r \in RunIds :
             /\ ( /\ r \in Keys(watched')
                  /\ r \in Keys(watched) => TsOf(watched', r) # TsOf(watched, r) ) =>
                   /\ episode'[r] = "inserted"
                   /\ Len(pending') < Len(pending)
             /\ (r \in Keys(watched) /\ r \notin Keys(watched')) =>
                   \/ /\ episode'[r] = "completed"
                      /\ emitted'.kind = "none"
                   \/ /\ emitted'.kind = "UPDATE"
                      /\ emitted'.id = r
                      /\ time_now - TsOf(watched, r) > 2 * HEARTBEAT_INTERVAL
      ]_vars

\* C17: no handler publishes.  Every notification comes from a step of the
\* sweep resuming after its fetch, for the snapshot entry the pass stopped
\* at, whose timestamp is more than 2 * HEARTBEAT_INTERVAL before the
\* pass's time_now.
C17_OnlySweepPublishes ==
    [][ emitted'.kind = "UPDATE" =>
          /\ last'.op = "sweep_notify"
          /\ pending' = pending
          /\ sweepPc = "fetch"
          /\ emitted'.id = snapshot[idx].k
          /\ time_now - snapshot[idx].ts > 2 * HEARTBEAT_INTERVAL
      ]_vars

\* the sweep has published for run 2 while update handlers were waiting
\* for their fetches
C17_Witness ==
    /\ emitted.kind = "UPDATE" /\ emitted.id = 2
    /\ Len(pending) = MaxInFlight

\* C18: the run in the notification is the record the sweep's own fetch
\* returned in that step, as returned; in particular not the watched
\* heartbeat.
C18_PayloadIsFetchedRecord ==
    [][ emitted'.kind = "UPDATE" =>
          /\ last'.op = "sweep_notify"
          /\ emitted'.id = last'.id
          /\ emitted'.run = last'.run
      ]_vars

\* a notification whose record carries a heartbeat newer than the expired
\* one the watch set had
C18_Witness ==
    /\ emitted.kind = "UPDATE"
    /\ emitted.present
    /\ ~emitted.run.isNone
    /\ emitted.run.last_heartbeat_ts > HEARTBEAT_INTERVAL

\* C19: per run, the notifications published so far never outnumber the
\* insertions by update handlers; and a notification is for the one
\* snapshot position of its run, so a pass publishes at most once per run.
C19_NotifiedAtMostInserted ==
    /\ [](\A r \in RunIds : notified[r] <= inserted[r])
    /\ [][ \A r \in RunIds :
             notified'[r] # notified[r] =>
                /\ notified'[r] = notified[r] + 1
                /\ sweepPc = "fetch"
                /\ snapshot[idx].k = r
                /\ \A j \in 1..Len(snapshot) : j # idx => snapshot[j].k # r
         ]_vars

\* run 1 has been inserted twice and notified twice
C19_Witness ==
    /\ inserted[1] > 1
    /\ notified[1] = inserted[1]

====
